---- MODULE Spec2Model ----
(***************************************************************************)
(* Model of notebooks/create_design_ideas.ipynb: the image_to_base64       *)
(* helper and the notebook's cells run top to bottom ("Run All"): fetch    *)
(* the sample image, resize it, base64-encode it, build the Stable         *)
(* Diffusion request, call invoke_model once, decode the first artifact    *)
(* and show it.                                                            *)
(*                                                                         *)
(* Python values are records with a "type" field.  A base64 text is a      *)
(* sequence of character codes: 0..63 are the alphabet's sextet values,    *)
(* PAD is '=', NONALPHA stands for any character outside the alphabet.     *)
(* Binary data is a sequence of bytes 0..255.                              *)
(***************************************************************************)
EXTENDS Integers, Sequences, FiniteSets, TLC

VARIABLES
    \* ---- the notebook run
    pc,                \* the cell that runs next, or "done" / "aborted"
    image,             \* cell 895df4ee: the fetched, decoded image
    resize,            \* cell 06f1842f: the resized copy
    init_image_b64,    \* cell 638c4d57
    change_prompt,     \* cell 99a1c7f8
    negative_prompts,  \* cell 99a1c7f8
    sd_request,        \* cell 94c8cd35
    response,          \* cell 8f9615af
    genimage,          \* cell ae68c393
    errors,            \* exceptions that reached the kernel, in order
    trace,             \* history: the steps that completed, in order
    invokeCalls,       \* history: number of invoke_model calls
    remote,            \* history: the body sent and what the service did
    openCalls,         \* history: Image.open attempts of the decoding cell
    shown,             \* images handed to .show(), in order
    \* ---- one call of image_to_base64 on an arbitrary argument
    img,               \* the argument
    fs,                \* the file system: path -> entry
    ret,               \* the call's outcome, None before the call
    reads              \* paths opened for reading by the call

vars == << pc, image, resize, init_image_b64, change_prompt, negative_prompts,
           sd_request, response, genimage, errors, trace, invokeCalls,
           remote, openCalls, shown, img, fs, ret, reads >>

runVars == << pc, image, resize, init_image_b64, change_prompt,
              negative_prompts, sd_request, response, genimage, errors, trace,
              invokeCalls, remote, openCalls, shown >>

callVars == << img, fs, ret, reads >>

----------------------------------------------------------------------------
\* Bounds of the model

MaxNeg == 2          \* longest list of negative prompts
MaxArtifacts == 2    \* most artifacts in a response
MaxB64Len == 3       \* longest freely enumerated base64 payload
MaxFileLen == 3      \* longest file content, in bytes

----------------------------------------------------------------------------
\* Python values

None == [type |-> "NoneType"]
Str(s) == [type |-> "str", val |-> s]
Bytes(b) == [type |-> "bytes", val |-> b]
PyInt(n) == [type |-> "int", val |-> n]
Img(w, h, px) == [type |-> "Image", w |-> w, h |-> h, px |-> px]

Return(v) == [ok |-> TRUE, value |-> v]
Raise(e, where) == [ok |-> FALSE, exc |-> e, at |-> where]

----------------------------------------------------------------------------
\* base64 (the standard library's binascii, as base64.b64encode and
\* base64.decodebytes use it)

PAD == 64
NONALPHA == 65

\* base64.b64encode: three bytes become four sextets; a last group of one
\* or two bytes is padded with '='.
RECURSIVE b2a_base64(_)
b2a_base64(bs) ==
    IF Len(bs) = 0 THEN << >>
    ELSE IF Len(bs) = 1 THEN
        << bs[1] \div 4, (bs[1] % 4) * 16, PAD, PAD >>
    ELSE IF Len(bs) = 2 THEN
        << bs[1] \div 4, (bs[1] % 4) * 16 + bs[2] \div 16,
           (bs[2] % 16) * 4, PAD >>
    ELSE
        << bs[1] \div 4, (bs[1] % 4) * 16 + bs[2] \div 16,
           (bs[2] % 16) * 4 + bs[3] \div 64, bs[3] % 64 >>
        \o b2a_base64(SubSeq(bs, 4, Len(bs)))

\* a variant that leaves out the '=' padding
b64encode_unpadded(b) ==
    Bytes(SelectSeq(b2a_base64(b.val), LAMBDA c : c # PAD))

b64encode(b) == Bytes(b2a_base64(b.val))

\* bytes.decode("utf-8") and bytes(s, "utf-8"): base64 text is ASCII, so the
\* character codes are kept and only the type changes; bytes() of a
\* non-string raises TypeError.
decode_utf8(b) == Str(b.val)
bytes_utf8(s) ==
    IF s.type = "str" THEN Return(Bytes(s.val))
    ELSE Raise("TypeError", "bytes")

\* binascii.a2b_base64, non-strict: characters outside the alphabet are
\* skipped, a pad that completes a group of four ends the input, pads
\* elsewhere are skipped, and leftover sextets at the end are an error.
RECURSIVE a2b_base64(_, _, _, _, _, _)
a2b_base64(s, i, quad_pos, leftchar, pads, out) ==
    IF i > Len(s) THEN
        IF quad_pos # 0 THEN Raise("binascii.Error", "decodebytes")
        ELSE Return(Bytes(out))
    ELSE IF s[i] = PAD THEN
        IF quad_pos >= 2 /\ quad_pos + pads + 1 >= 4 THEN Return(Bytes(out))
        ELSE a2b_base64(s, i + 1, quad_pos, leftchar,
                        IF quad_pos >= 2 THEN pads + 1 ELSE pads, out)
    ELSE IF s[i] > PAD THEN
        a2b_base64(s, i + 1, quad_pos, leftchar, pads, out)
    ELSE IF quad_pos = 0 THEN
        a2b_base64(s, i + 1, 1, s[i], 0, out)
    ELSE IF quad_pos = 1 THEN
        a2b_base64(s, i + 1, 2, s[i] % 16, 0,
                   Append(out, leftchar * 4 + s[i] \div 16))
    ELSE IF quad_pos = 2 THEN
        a2b_base64(s, i + 1, 3, s[i] % 4, 0,
                   Append(out, leftchar * 16 + s[i] \div 4))
    ELSE
        a2b_base64(s, i + 1, 0, 0, 0, Append(out, leftchar * 64 + s[i]))

\* a strict variant: any character outside the alphabet is an error
decodebytes_strict(b) ==
    IF \E k \in 1..Len(b.val) : b.val[k] > PAD
    THEN Raise("binascii.Error", "decodebytes")
    ELSE a2b_base64(b.val, 1, 0, 0, 0, << >>)

decodebytes(b) == a2b_base64(b.val, 1, 0, 0, 0, << >>)

----------------------------------------------------------------------------
\* Images (the PIL library).  An image is its size and px, which stands for
\* its pixel content.  A PNG file is modelled as the signature byte, the
\* width and height as two big-endian bytes each, and the content.

PNG_SIG == 137
SIDE == 512

PngEncode(im) ==
    << PNG_SIG, im.w \div 256, im.w % 256, im.h \div 256, im.h % 256, im.px >>

ImageOpen(b) ==
    IF Len(b.val) = 6 /\ b.val[1] = PNG_SIG
    THEN Return(Img(b.val[2] * 256 + b.val[3], b.val[4] * 256 + b.val[5],
                    b.val[6]))
    ELSE Raise("UnidentifiedImageError", "Image.open")

Resize(im, w, h) == Img(w, h, im.px)

----------------------------------------------------------------------------
\* image_to_base64(img), with the file system it reads.  The outcome
\* carries the set of paths the call opened.

IsFile(f, path) == path \in DOMAIN f /\ f[path].kind = "file"

\* a variant that resizes a decoded image itself before encoding it
image_to_base64_resizing(i, f) ==
    IF i.type = "str" THEN
        IF IsFile(f, i.val)
        THEN [ok |-> TRUE, opened |-> {i.val},
              value |-> decode_utf8(b64encode(Bytes(f[i.val].data)))]
        ELSE [ok |-> FALSE, opened |-> {}, exc |-> "FileNotFoundError",
              at |-> "image_to_base64"]
    ELSE IF i.type = "Image" THEN
        [ok |-> TRUE, opened |-> {},
         value |->
           decode_utf8(b64encode(Bytes(PngEncode(Resize(i, SIDE, SIDE)))))]
    ELSE [ok |-> FALSE, opened |-> {}, exc |-> "ValueError",
          at |-> "image_to_base64"]

\* a variant whose missing-file branch falls through to the type error
image_to_base64_fallthrough(i, f) ==
    IF i.type = "str" /\ IsFile(f, i.val) THEN
        [ok |-> TRUE, opened |-> {i.val},
         value |-> decode_utf8(b64encode(Bytes(f[i.val].data)))]
    ELSE IF i.type = "Image" THEN
        [ok |-> TRUE, opened |-> {},
         value |-> decode_utf8(b64encode(Bytes(PngEncode(i))))]
    ELSE [ok |-> FALSE, opened |-> {}, exc |-> "ValueError",
          at |-> "image_to_base64"]

\* a variant that also accepts raw bytes and encodes them as they are
image_to_base64_bytes(i, f) ==
    IF i.type = "str" THEN
        IF IsFile(f, i.val)
        THEN [ok |-> TRUE, opened |-> {i.val},
              value |-> decode_utf8(b64encode(Bytes(f[i.val].data)))]
        ELSE [ok |-> FALSE, opened |-> {}, exc |-> "FileNotFoundError",
              at |-> "image_to_base64"]
    ELSE IF i.type = "Image" THEN
        [ok |-> TRUE, opened |-> {},
         value |-> decode_utf8(b64encode(Bytes(PngEncode(i))))]
    ELSE IF i.type = "bytes" THEN
        [ok |-> TRUE, opened |-> {}, value |-> decode_utf8(b64encode(i))]
    ELSE [ok |-> FALSE, opened |-> {}, exc |-> "ValueError",
          at |-> "image_to_base64"]

image_to_base64(i, f) ==
    IF i.type = "str" THEN
        IF IsFile(f, i.val)
        THEN [ok |-> TRUE, opened |-> {i.val},
              value |-> decode_utf8(b64encode(Bytes(f[i.val].data)))]
        ELSE [ok |-> FALSE, opened |-> {}, exc |-> "FileNotFoundError",
              at |-> "image_to_base64"]
    ELSE IF i.type = "Image" THEN
        [ok |-> TRUE, opened |-> {},
         value |-> decode_utf8(b64encode(Bytes(PngEncode(i))))]
    ELSE [ok |-> FALSE, opened |-> {}, exc |-> "ValueError",
          at |-> "image_to_base64"]

----------------------------------------------------------------------------
\* json.dumps and json.loads: a JSON text is kept as the document it
\* spells; text that is not JSON has no document.

json_dumps(doc) == [type |-> "str", json |-> doc]
json_loads(text) ==
    IF "json" \in DOMAIN text THEN Return(text.json)
    ELSE Raise("JSONDecodeError", "json.loads")

\* dict.get(key): the value, or None when the key is missing
Get(d, key) == IF key \in DOMAIN d THEN Str(d[key]) ELSE None

----------------------------------------------------------------------------
\* The inputs the run can meet

SeqsUpTo(S, n) == UNION { [1..k -> S] : k \in 0..n }

\* the image behind image_url, as the server may deliver it
SourceImages == { Img(768, 512, 200), Img(1, 1, 7) }
FetchOutcomes ==
    { [kind |-> "raise", exc |-> "ConnectionError"] }
    \cup { [kind |-> "content", content |-> Bytes(PngEncode(i))] :
             i \in SourceImages }
    \cup { [kind |-> "content", content |-> Bytes(<< 60, 104 >>)] }

Prompts == { "add floral prints to dress" }
NegPool == { "poorly rendered", "low quality" }
NegLists == SeqsUpTo(NegPool, MaxNeg)

\* what the service may answer
GenImages == { Img(1, 1, 7), Img(512, 512, 200) }
Insert(s, k, c) == SubSeq(s, 1, k) \o << c >> \o SubSeq(s, k + 1, Len(s))
ImagePayloads ==
    UNION { { b2a_base64(PngEncode(g)),
              Insert(b2a_base64(PngEncode(g)), 0, NONALPHA),
              Insert(b2a_base64(PngEncode(g)), 5, NONALPHA),
              b2a_base64(PngEncode(g)) \o << PAD >>,
              SubSeq(b2a_base64(PngEncode(g)), 1, 7),
              SubSeq(b2a_base64(PngEncode(g)), 1, 5) } : g \in GenImages }
\* text that encodes bytes which are no image: "QQ==", "QUI=", "QUJD"
PlainPayloads ==
    { b2a_base64(<< 65 >>), b2a_base64(<< 65, 66 >>),
      b2a_base64(<< 65, 66, 67 >>),
      Insert(b2a_base64(<< 65, 66 >>), 2, NONALPHA),
      << 16, 16, PAD, 16 >>, << PAD, 16, 16, PAD, PAD >> }
Payloads ==
    ImagePayloads \cup PlainPayloads
    \cup SeqsUpTo({ 16, PAD, NONALPHA }, MaxB64Len)

Artifact(p) == [base64 |-> p, seed |-> 0, finishReason |-> "SUCCESS"]
NoPayload == [seed |-> 0, finishReason |-> "ERROR"]
FirstArtifacts == { Artifact(p) : p \in Payloads } \cup { NoPayload }
OtherArtifacts ==
    { Artifact(b2a_base64(PngEncode(Img(512, 512, 7)))), NoPayload }
ArtifactLists ==
    { << >> } \cup
    UNION { { << a >> \o rest : a \in FirstArtifacts,
                                rest \in [1..(k - 1) -> OtherArtifacts] } :
            k \in 1..MaxArtifacts }

ResponseDocs ==
    { [message |-> "no content"] }
    \cup { [result |-> "success", artifacts |-> as] : as \in ArtifactLists }
ResponseBodies ==
    { json_dumps(d) : d \in ResponseDocs } \cup { Str(<< 60, 104 >>) }
RemoteErrors ==
    { "AccessDeniedException", "ThrottlingException", "ValidationException" }
RemoteOutcomes ==
    { [kind |-> "raise", exc |-> e] : e \in RemoteErrors }
    \cup { [kind |-> "return", response |-> [body |-> b]] :
             b \in ResponseBodies }

----------------------------------------------------------------------------
\* The notebook's cells, run in order; an exception ends the run

Abort(e) ==
    /\ pc' = "aborted"
    /\ errors' = Append(errors, [exc |-> e.exc, at |-> e.at, cell |-> pc])

Step(next) ==
    /\ pc' = next
    /\ trace' = Append(trace, pc)
    /\ errors' = errors

\* cell 895df4ee: requests.get, Image.open
FetchOf(o) ==
    IF o.kind = "raise" THEN Raise(o.exc, "requests.get")
    ELSE ImageOpen(o.content)

FetchImage ==
    /\ pc = "fetch"
    /\ \E o \in FetchOutcomes :
         IF FetchOf(o).ok
         THEN /\ image' = FetchOf(o).value
              /\ Step("resize")
         ELSE /\ Abort(FetchOf(o))
              /\ UNCHANGED << image, trace >>
    /\ UNCHANGED << resize, init_image_b64, change_prompt, negative_prompts,
                    sd_request, response, genimage, invokeCalls, remote,
                    openCalls, shown >>
    /\ UNCHANGED callVars

\* cell 06f1842f: image.resize((512,512)); resize.show()
ResizeImage ==
    /\ pc = "resize"
    /\ resize' = Resize(image, SIDE, SIDE)
    /\ shown' = Append(shown, resize')
    /\ Step("encode")
    /\ UNCHANGED << image, init_image_b64, change_prompt, negative_prompts,
                    sd_request, response, genimage, invokeCalls, remote,
                    openCalls >>
    /\ UNCHANGED callVars

\* cell 638c4d57: init_image_b64 = image_to_base64(resize)
EncodeImage ==
    /\ pc = "encode"
    /\ IF image_to_base64(resize, fs).ok
       THEN /\ init_image_b64' = image_to_base64(resize, fs).value
            /\ Step("prompts")
       ELSE /\ Abort(image_to_base64(resize, fs))
            /\ UNCHANGED << init_image_b64, trace >>
    /\ UNCHANGED << image, resize, change_prompt, negative_prompts,
                    sd_request, response, genimage, invokeCalls, remote,
                    openCalls, shown >>
    /\ UNCHANGED callVars

\* cell 99a1c7f8: the prompt and the negative prompts
InputPrompts ==
    /\ pc = "prompts"
    /\ \E p \in Prompts, n \in NegLists :
         /\ change_prompt' = p
         /\ negative_prompts' = n
    /\ Step("compose")
    /\ UNCHANGED << image, resize, init_image_b64, sd_request, response,
                    genimage, invokeCalls, remote, openCalls, shown >>
    /\ UNCHANGED callVars

\* cell 94c8cd35: sd_request = json.dumps({...})
\* a variant that lists each negative prompt once
RECURSIVE Dedup(_)
Dedup(q) ==
    IF q = << >> THEN << >>
    ELSE IF \E k \in 1..(Len(q) - 1) : q[k] = q[Len(q)]
    THEN Dedup(SubSeq(q, 1, Len(q) - 1))
    ELSE Append(Dedup(SubSeq(q, 1, Len(q) - 1)), q[Len(q)])

text_prompts_unique(prompt, negs) ==
    << [text |-> prompt, weight |-> "1.0"] >>
    \o [k \in 1..Len(Dedup(negs)) |->
          [text |-> Dedup(negs)[k], weight |-> "-1.0"]]

text_prompts(prompt, negs) ==
    << [text |-> prompt, weight |-> "1.0"] >>
    \o [k \in 1..Len(negs) |-> [text |-> negs[k], weight |-> "-1.0"]]

RequestBody(prompt, negs, init) ==
    [text_prompts |-> text_prompts(prompt, negs),
     cfg_scale |-> 10,
     init_image |-> init,
     seed |-> 0,
     start_schedule |-> "0.5",
     steps |-> 30,
     style_preset |-> "photographic",
     image_strength |-> "0.5",
     denoising_strength |-> "0.5"]

\* a variant that encodes the fetched image instead of the resized copy
ComposeRequestUnresized ==
    /\ pc = "compose"
    /\ sd_request' =
         json_dumps(RequestBody(change_prompt, negative_prompts,
                                image_to_base64(image, fs).value))
    /\ Step("invoke")
    /\ UNCHANGED << image, resize, init_image_b64, change_prompt,
                    negative_prompts, response, genimage, invokeCalls,
                    remote, openCalls, shown >>
    /\ UNCHANGED callVars

ComposeRequest ==
    /\ pc = "compose"
    /\ sd_request' =
         json_dumps(RequestBody(change_prompt, negative_prompts,
                                init_image_b64))
    /\ Step("invoke")
    /\ UNCHANGED << image, resize, init_image_b64, change_prompt,
                    negative_prompts, response, genimage, invokeCalls,
                    remote, openCalls, shown >>
    /\ UNCHANGED callVars

\* a variant that calls again when the service throttles
InvokeModelRetry ==
    /\ pc = "invoke"
    /\ invokeCalls' = invokeCalls + 1
    /\ \E o \in RemoteOutcomes :
         /\ remote' = [sent |-> sd_request, kind |-> o.kind,
                       exc |-> IF o.kind = "raise" THEN o.exc ELSE ""]
         /\ IF o.kind = "return"
            THEN /\ response' = o.response
                 /\ Step("decode")
            ELSE IF o.exc = "ThrottlingException"
            THEN UNCHANGED << pc, errors, response, trace >>
            ELSE /\ Abort(Raise(o.exc, "invoke_model"))
                 /\ UNCHANGED << response, trace >>
    /\ UNCHANGED << image, resize, init_image_b64, change_prompt,
                    negative_prompts, sd_request, genimage, openCalls, shown >>
    /\ UNCHANGED callVars

\* cell 8f9615af: response = boto3_bedrock.invoke_model(body=sd_request, ...)
InvokeModel ==
    /\ pc = "invoke"
    /\ invokeCalls' = invokeCalls + 1
    /\ \E o \in RemoteOutcomes :
         /\ remote' = [sent |-> sd_request, kind |-> o.kind,
                       exc |-> IF o.kind = "raise" THEN o.exc ELSE ""]
         /\ IF o.kind = "return"
            THEN /\ response' = o.response
                 /\ Step("decode")
            ELSE /\ Abort(Raise(o.exc, "invoke_model"))
                 /\ UNCHANGED << response, trace >>
    /\ UNCHANGED << image, resize, init_image_b64, change_prompt,
                    negative_prompts, sd_request, genimage, openCalls, shown >>
    /\ UNCHANGED callVars

\* cell ae68c393, lines 1-3: json.loads, artifacts[0].get("base64"),
\* Image.open(io.BytesIO(base64.decodebytes(bytes(..., "utf-8"))))
\* a variant that falls back to a placeholder when there is no artifact
FirstArtifactOrPlaceholder(body) ==
    IF "artifacts" \notin DOMAIN body \/ Len(body.artifacts) = 0
    THEN Return(Artifact(b2a_base64(PngEncode(Img(1, 1, 0)))))
    ELSE Return(body.artifacts[1])

\* a variant that takes the last artifact
LastArtifact(body) ==
    IF "artifacts" \notin DOMAIN body THEN Raise("KeyError", "artifacts")
    ELSE IF Len(body.artifacts) = 0 THEN Raise("IndexError", "artifacts[0]")
    ELSE Return(body.artifacts[Len(body.artifacts)])

FirstArtifact(body) ==
    IF "artifacts" \notin DOMAIN body THEN Raise("KeyError", "artifacts")
    ELSE IF Len(body.artifacts) = 0 THEN Raise("IndexError", "artifacts[0]")
    ELSE Return(body.artifacts[1])

PayloadBytes(resp) ==
    LET response_body == json_loads(resp.body) IN
    IF ~response_body.ok THEN response_body
    ELSE LET first == FirstArtifact(response_body.value) IN
    IF ~first.ok THEN first
    ELSE LET genimage_b64_str == Get(first.value, "base64")
             raw == bytes_utf8(genimage_b64_str)
         IN  IF ~raw.ok THEN raw ELSE decodebytes(raw.value)

DecodeResponse(resp) ==
    LET data == PayloadBytes(resp) IN
    IF data.ok THEN ImageOpen(data.value) ELSE data

DecodeImage ==
    /\ pc = "decode"
    /\ LET data == PayloadBytes(response)
           opened == DecodeResponse(response)
       IN  /\ openCalls' = IF data.ok THEN openCalls + 1 ELSE openCalls
           /\ IF opened.ok
              THEN /\ genimage' = opened.value
                   /\ Step("show")
              ELSE /\ Abort(opened)
                   /\ UNCHANGED << genimage, trace >>
    /\ UNCHANGED << image, resize, init_image_b64, change_prompt,
                    negative_prompts, sd_request, response, invokeCalls,
                    remote, shown >>
    /\ UNCHANGED callVars

\* cell ae68c393, line 4: genimage.show()
ShowImage ==
    /\ pc = "show"
    /\ shown' = Append(shown, genimage)
    /\ Step("done")
    /\ UNCHANGED << image, resize, init_image_b64, change_prompt,
                    negative_prompts, sd_request, response, genimage,
                    invokeCalls, remote, openCalls >>
    /\ UNCHANGED callVars

NoFiles == [p \in {} |-> None]

Init ==
    /\ pc = "fetch"
    /\ image = None
    /\ resize = None
    /\ init_image_b64 = None
    /\ change_prompt = None
    /\ negative_prompts = None
    /\ sd_request = None
    /\ response = None
    /\ genimage = None
    /\ errors = << >>
    /\ trace = << >>
    /\ invokeCalls = 0
    /\ remote = None
    /\ openCalls = 0
    /\ shown = << >>
    /\ img = None
    /\ fs = NoFiles
    /\ ret = None
    /\ reads = {}

Next ==
    \/ FetchImage
    \/ ResizeImage
    \/ EncodeImage
    \/ InputPrompts
    \/ ComposeRequest
    \/ InvokeModel
    \/ DecodeImage
    \/ ShowImage

Spec == Init /\ [][Next]_vars

----------------------------------------------------------------------------
\* One call of image_to_base64 on any argument, over any file system

Paths == { "a.png", "imgs", "nope.png", "" }
ByteSamples == { 0, 77, 255 }
FileContents ==
    SeqsUpTo(ByteSamples, MaxFileLen)
    \cup { PngEncode(i) : i \in SourceImages }
Directory == [kind |-> "dir"]
File(data) == [kind |-> "file", data |-> data]
FileSystems ==
    { ("imgs" :> Directory) }
    \cup { ("imgs" :> Directory) @@ ("a.png" :> File(d)) :
             d \in FileContents }
Arguments ==
    { Str(p) : p \in Paths }
    \cup SourceImages
    \cup { Resize(i, SIDE, SIDE) : i \in SourceImages }
    \cup { PyInt(5), None, Bytes(<< 77 >>) }

CallInit ==
    /\ pc = "call"
    /\ img \in Arguments
    /\ fs \in FileSystems
    /\ ret = None
    /\ reads = {}
    /\ image = None
    /\ resize = None
    /\ init_image_b64 = None
    /\ change_prompt = None
    /\ negative_prompts = None
    /\ sd_request = None
    /\ response = None
    /\ genimage = None
    /\ errors = << >>
    /\ trace = << >>
    /\ invokeCalls = 0
    /\ remote = None
    /\ openCalls = 0
    /\ shown = << >>

CallImageToBase64 ==
    /\ pc = "call"
    /\ ret' = image_to_base64(img, fs)
    /\ reads' = reads \cup image_to_base64(img, fs).opened
    /\ pc' = "returned"
    /\ UNCHANGED << img, fs >>
    /\ UNCHANGED << image, resize, init_image_b64, change_prompt,
                    negative_prompts, sd_request, response, genimage, errors,
                    trace, invokeCalls, remote, openCalls, shown >>

CallNext == CallImageToBase64

CallSpec == CallInit /\ [][CallNext]_vars

----------------------------------------------------------------------------
\* Properties of image_to_base64 (checked under CallSpec)

Returned == pc = "returned"
NamesFile == img.type = "str" /\ img.val \in DOMAIN fs
                              /\ fs[img.val].kind = "file"
\* the bytes a returned string decodes to
Decoded(r) == decodebytes(bytes_utf8(r.value).value)

\* C2, as stated: for every accepted input, a path or a decoded image, the
\* output is the base64 text of a PNG encoding of the image resized to
\* 512x512.
C2_Original ==
    Returned /\ ret.ok =>
        /\ Decoded(ret).ok
        /\ ImageOpen(Decoded(ret).value).ok
        /\ ImageOpen(Decoded(ret).value).value.w = SIDE
        /\ ImageOpen(Decoded(ret).value).value.h = SIDE
        /\ img.type = "Image" =>
             ImageOpen(Decoded(ret).value).value = Resize(img, SIDE, SIDE)

\* C2, amended: image_to_base64 never resizes.  For a decoded image the
\* output is the base64 text of a PNG encoding of that image at the size it
\* has (512x512 exactly when the caller resized it before the call); for a
\* path of a file the output is the base64 text of the file's bytes as they
\* are, neither PNG-encoded nor resized.
C2_NoResize ==
    Returned /\ ret.ok =>
        /\ ret.value.type = "str"
        /\ img.type \in { "Image", "str" }
        /\ img.type = "Image" =>
             /\ Decoded(ret) = Return(Bytes(PngEncode(img)))
             /\ ImageOpen(Decoded(ret).value) = Return(img)
             /\ (ImageOpen(Decoded(ret).value).value.w = SIDE) = (img.w = SIDE)
        /\ img.type = "str" => ret.value.val = b2a_base64(fs[img.val].data)

C2_Witness ==
    /\ Returned /\ ret.ok
    /\ img.type = "Image" /\ img.w = 1 /\ img.h = 1
    /\ ImageOpen(Decoded(ret).value).value.w = 1

\* C3: for a string naming an existing regular file the call returns a
\* string whose base64 decoding is the file's contents, byte for byte, the
\* empty file included.
C3_RoundTrip ==
    Returned /\ NamesFile =>
        /\ ret.ok
        /\ ret.value.type = "str"
        /\ Decoded(ret).ok
        /\ Decoded(ret).value.val = fs[img.val].data
        /\ Len(Decoded(ret).value.val) = Len(fs[img.val].data)

C3_Witness ==
    /\ Returned /\ NamesFile /\ ret.ok
    /\ fs[img.val].data = << 255, 77 >>
    /\ ret.value.val = << 63, 52, 52, PAD >>

\* C4: for a string that is not the path of an existing file the call fails
\* with FileNotFoundError, returns no string, and a string argument never
\* gets the wrong-type error.
C4_NotFound ==
    Returned /\ img.type = "str" =>
        /\ ~NamesFile => /\ ~ret.ok
                         /\ ret.exc = "FileNotFoundError"
                         /\ "value" \notin DOMAIN ret
        /\ ~(~ret.ok /\ ret.exc = "ValueError")

C4_Witness ==
    /\ Returned /\ img = Str("imgs") /\ "imgs" \in DOMAIN fs
    /\ ~ret.ok /\ ret.exc = "FileNotFoundError"

\* C5: the call fails with ValueError exactly when its argument is neither
\* a string nor a decoded image; it then returns no string and reads no
\* file.
C5_WrongType ==
    Returned =>
        /\ (~ret.ok /\ ret.exc = "ValueError")
             <=> img.type \notin { "str", "Image" }
        /\ img.type \notin { "str", "Image" } =>
             /\ "value" \notin DOMAIN ret
             /\ reads = {}

C5_Witness ==
    /\ Returned /\ img = PyInt(5)
    /\ ~ret.ok /\ ret.exc = "ValueError" /\ reads = {}

----------------------------------------------------------------------------
\* Properties of the notebook run (checked under Spec)

Order ==
    << "fetch", "resize", "encode", "prompts", "compose", "invoke",
       "decode", "show" >>
Ran(cell) == \E k \in 1..Len(trace) : trace[k] = cell
Composed == "json" \in DOMAIN sd_request
Answered == "body" \in DOMAIN response
\* the decoding cell has run, to its end or to an exception
DecodeRan == Answered /\ pc # "decode"
HasDoc == Answered /\ "json" \in DOMAIN response.body
HasArtifacts ==
    /\ HasDoc
    /\ "artifacts" \in DOMAIN response.body.json
    /\ Len(response.body.json.artifacts) >= 1
FirstOf == response.body.json.artifacts[1]
NoImage ==
    /\ pc = "aborted"
    /\ genimage = None
    /\ ~Ran("decode") /\ ~Ran("show")
    /\ Len(shown) = 1 /\ shown[1] = resize

\* C1: the request's text_prompts has one entry more than there are negative
\* prompts; the first is the prompt with weight 1.0 and entry i+1 is the
\* i-th negative prompt with weight -1.0, duplicates kept, order kept.
C1_TextPrompts ==
    Composed =>
        /\ Len(sd_request.json.text_prompts) = Len(negative_prompts) + 1
        /\ sd_request.json.text_prompts[1]
             = [text |-> change_prompt, weight |-> "1.0"]
        /\ \A i \in 1..Len(negative_prompts) :
             sd_request.json.text_prompts[i + 1]
               = [text |-> negative_prompts[i], weight |-> "-1.0"]

C1_Witness ==
    /\ Composed
    /\ negative_prompts = << "low quality", "low quality" >>
    /\ Len(sd_request.json.text_prompts) = 3

\* C6: when the response has no "artifacts" key or an empty "artifacts"
\* list, the decoding cell fails with KeyError or IndexError, no image is
\* produced and nothing more is shown.
C6_NoArtifacts ==
    DecodeRan /\ HasDoc /\ ~HasArtifacts =>
        /\ NoImage
        /\ openCalls = 0
        /\ Len(errors) = 1
        /\ errors[1].cell = "decode"
        /\ errors[1].exc =
             IF "artifacts" \in DOMAIN response.body.json
             THEN "IndexError" ELSE "KeyError"

C6_Witness ==
    /\ DecodeRan /\ HasDoc
    /\ "artifacts" \in DOMAIN response.body.json
    /\ response.body.json.artifacts = << >>
    /\ errors[1].exc = "IndexError"

\* C7: when the first artifact carries the base64 text of an image, the
\* decoded image is that image, whatever the other artifacts are and however
\* many there are.
C7_FirstArtifact ==
    \A g \in GenImages :
        DecodeRan /\ HasArtifacts
          /\ "base64" \in DOMAIN FirstOf
          /\ FirstOf.base64 = b2a_base64(PngEncode(g))
        => /\ genimage = g
           /\ pc \in { "show", "done" }
           /\ errors = << >>
           /\ pc = "done" => shown[Len(shown)] = g

C7_Witness ==
    /\ pc = "done"
    /\ HasArtifacts
    /\ Len(response.body.json.artifacts) = 2
    /\ response.body.json.artifacts[2] = NoPayload
    /\ genimage = Img(1, 1, 7)

\* C8: invoke_model is called at most once; when the call fails, its error
\* is the run's outcome as raised, and neither decoding nor display follows.
C8_NoRetry ==
    /\ invokeCalls <= 1
    /\ (invokeCalls = 1) = ("kind" \in DOMAIN remote)
    /\ "kind" \in DOMAIN remote /\ remote.kind = "raise" =>
         /\ remote.exc \in RemoteErrors
         /\ errors = << [exc |-> remote.exc, at |-> "invoke_model",
                         cell |-> "invoke"] >>
         /\ response = None
         /\ openCalls = 0
         /\ NoImage

C8_Witness ==
    /\ pc = "aborted"
    /\ invokeCalls = 1
    /\ remote.kind = "raise"
    /\ remote.exc = "ThrottlingException"

\* C9: the steps run at most once each and in the order fetch, resize,
\* encode, prompts, compose, invoke, decode, show; a step runs only after
\* all earlier ones completed; the request sent carries the init_image of
\* this run's encoding step; a run ends with the image shown or with
\* exactly one error.
C9_StraightLine ==
    /\ trace = SubSeq(Order, 1, Len(trace))
    /\ Len(errors) <= 1
    /\ (pc = "aborted") = (Len(errors) = 1)
    /\ pc = "aborted" => errors[1].cell = Order[Len(trace) + 1]
    /\ pc # "aborted" =>
         pc = (IF Len(trace) = Len(Order) THEN "done"
               ELSE Order[Len(trace) + 1])
    /\ pc = "done" => errors = << >> /\ shown = << resize, genimage >>
    /\ pc \in { "done", "aborted" } \/ ENABLED Next
    /\ "sent" \in DOMAIN remote =>
         /\ remote.sent = sd_request
         /\ remote.sent.json.init_image = init_image_b64
         /\ ImageOpen(decodebytes(bytes_utf8(init_image_b64).value).value)
              = Return(Resize(image, SIDE, SIDE))

C9_Witness ==
    /\ pc = "done"
    /\ trace = Order
    /\ image = Img(768, 512, 200)
    /\ Len(shown) = 2

\* C10, as stated: when the first artifact's "base64" field is absent or is
\* not valid base64 text, decoding fails with a decode error raised by the
\* base64 decoding, before any attempt to open an image, and no image is
\* produced.
ValidB64(s) ==
    /\ Len(s) % 4 = 0
    /\ \A k \in 1..Len(s) : s[k] <= PAD
    /\ \A k \in 1..Len(s) : s[k] = PAD =>
         /\ k > Len(s) - 2
         /\ \A j \in k..Len(s) : s[j] = PAD

C10_Original ==
    DecodeRan /\ HasArtifacts
      /\ ("base64" \in DOMAIN FirstOf => ~ValidB64(FirstOf.base64))
    => /\ NoImage
       /\ openCalls = 0
       /\ Len(errors) = 1
       /\ errors[1].exc = "binascii.Error"
       /\ errors[1].at = "decodebytes"

\* C10, amended: characters outside the base64 alphabet are discarded and
\* cause no failure.  When what is left is data characters followed by too
\* few '=' to complete the last group of four, decoding fails with
\* binascii.Error at the base64 decoding, before any attempt to open an
\* image, and no image is produced; when the groups are complete, the bytes
\* are decoded and opening an image is attempted, and a payload that is the
\* base64 text of an image with such characters mixed in yields that image.
\* When the field is absent, the cell fails earlier, with TypeError in
\* bytes(), and no image is produced.
Stripped(s) == SelectSeq(s, LAMBDA c : c <= PAD)
DataCount(t) == Cardinality({ k \in 1..Len(t) : t[k] < PAD })
PadCount(t) == Cardinality({ k \in 1..Len(t) : t[k] = PAD })
PadsAtEnd(t) ==
    \A k \in 1..Len(t) : t[k] = PAD => \A j \in k..Len(t) : t[j] = PAD
Underpadded(t) ==
    \/ DataCount(t) % 4 = 1
    \/ DataCount(t) % 4 = 2 /\ PadCount(t) < 2
    \/ DataCount(t) % 4 = 3 /\ PadCount(t) < 1

C10_Lenient ==
    DecodeRan /\ HasArtifacts =>
      IF "base64" \notin DOMAIN FirstOf THEN
          /\ NoImage
          /\ openCalls = 0
          /\ errors = << [exc |-> "TypeError", at |-> "bytes",
                          cell |-> "decode"] >>
      ELSE IF ~PadsAtEnd(Stripped(FirstOf.base64)) THEN TRUE
      ELSE IF Underpadded(Stripped(FirstOf.base64)) THEN
          /\ NoImage
          /\ openCalls = 0
          /\ errors = << [exc |-> "binascii.Error", at |-> "decodebytes",
                          cell |-> "decode"] >>
      ELSE
          /\ openCalls = 1
          /\ \A k \in 1..Len(errors) : errors[k].at = "Image.open"
          /\ \A g \in GenImages :
               Stripped(FirstOf.base64) = b2a_base64(PngEncode(g))
               => genimage = g /\ pc \in { "show", "done" }

C10_Witness ==
    /\ DecodeRan /\ HasArtifacts
    /\ "base64" \in DOMAIN FirstOf
    /\ FirstOf.base64 = SubSeq(b2a_base64(PngEncode(Img(1, 1, 7))), 1, 7)
    /\ errors[1].exc = "binascii.Error"
    /\ openCalls = 0

====
